---- MODULE Spec2Model ----
(***************************************************************************)
(* A model of the job-market dashboard of src/app.py: a Streamlit script   *)
(* that fetches a parquet file, reads one MSA's rows, filters them by the  *)
(* sidebar widgets and renders summary charts and a CSV export.            *)
(*                                                                         *)
(* A DataFrame is a sequence of records (one per row, in index order); a   *)
(* null string cell is Null, a null numeric cell is NaN.  Text whose       *)
(* whitespace matters (REMOTE_TYPE_NAME) and the serialized list literals  *)
(* of the skill columns are sequences of tokens, so that str.strip and     *)
(* ast.literal_eval are computed and not assumed.                          *)
(*                                                                         *)
(* Four specifications share the variables:                                *)
(*   Spec        the script re-run by Streamlit on every interaction,      *)
(*               with the three st.cache_data caches;                      *)
(*   SpecFilter  lines 56-75 (remote normalization, Apply filters) applied *)
(*               to row sets and filter settings drawn from bounded sets;  *)
(*   SpecAgg     lines 79-164 (CSV, charts) applied to what the filter at  *)
(*               its defaults keeps of row sets drawn from bounded sets;   *)
(*   SpecLoad    lines 25-42 (load_msa_data) applied to serialized rows,   *)
(*               and the cleaning of lines 38-40 applied a second time.    *)
(***************************************************************************)
EXTENDS Integers, Sequences, FiniteSets, TLC

VARIABLES
    dataset,       \* rows of the parquet file behind DROPBOX_URL
    cache,         \* st.cache_data: cache key -> stored (pickled) value
    calls,         \* how often each cached function body has executed
    msa,           \* st.sidebar.selectbox("Select MSA")
    df,            \* df of the current run (after line 58)
    job_type,      \* st.sidebar.multiselect("Employment Type")
    remote,        \* st.sidebar.multiselect("Remote Type")
    min_exp,       \* st.sidebar.slider("Min Years Experience")
    max_exp,       \* st.sidebar.slider("Max Years Experience")
    salary_range,  \* st.sidebar.slider("Salary Range")
    filtered_df,   \* filtered_df of the current run
    csv,           \* csv_buffer.getvalue(): the lines handed to the download
    charts,        \* the tables handed to plotly
    status,        \* where the current run / pipeline stands
    probe          \* results of the second filter pass and of re-normalizing

vars == <<dataset, cache, calls, msa, df, job_type, remote, min_exp, max_exp,
          salary_range, filtered_df, csv, charts, status, probe>>

-----------------------------------------------------------------------------
(* Cell values *)

\* A null cell of a string column (None after to_pandas).
Null == "<NA>"

\* A null cell of a numeric column; every real value of the model is >= 0.
NaN == -1

\* A null cell of a text column held as tokens.
NullText == <<"<NA>">>

Max(a, b) == IF a >= b THEN a ELSE b

Min(a, b) == IF a <= b THEN a ELSE b

\* The elements of a sequence.
Range(s) == {s[i] : i \in 1..Len(s)}

-----------------------------------------------------------------------------
(* Remote-type normalization, lines 56-58 *)

RECURSIVE LStrip(_)
LStrip(t) == IF t # <<>> /\ Head(t) = " " THEN LStrip(Tail(t)) ELSE t

RECURSIVE RStrip(_)
RStrip(t) ==
    IF t # <<>> /\ t[Len(t)] = " " THEN RStrip(SubSeq(t, 1, Len(t) - 1)) ELSE t

\* str.strip(): leading and trailing whitespace tokens removed.
Strip(t) == RStrip(LStrip(t))

\* .replace({'[None]': 'Unspecified'}): whole-value match, before the strip.
ReplaceNone(t) == IF t = <<"[None]">> THEN <<"Unspecified">> ELSE t

\* .fillna('Unspecified')
FillNa(t) == IF t = NullText THEN <<"Unspecified">> ELSE t

NormalizeRemoteCell(t) == Strip(FillNa(ReplaceNone(t)))

\* Lines 56-58 on a frame.
NormalizeRemote(d) ==
    [i \in 1..Len(d) |->
        [d[i] EXCEPT !.REMOTE_TYPE_NAME = NormalizeRemoteCell(@)]]

-----------------------------------------------------------------------------
(* Apply filters, lines 65-75 *)

\* Series >= scalar: a comparison with NaN is False.
SeriesGe(x, y) == x # NaN /\ x >= y

\* Series <= scalar: a comparison with NaN is False.
SeriesLe(x, y) == x # NaN /\ x <= y

\* Lines 66-67 without the `if job_type:` guard.
JobTypeFilterUnguarded(f, jt) ==
    SelectSeq(f, LAMBDA r : r.EMPLOYMENT_TYPE_NAME \in jt)

\* Lines 66-67.
JobTypeFilter(f, jt) ==
    IF jt # {} THEN SelectSeq(f, LAMBDA r : r.EMPLOYMENT_TYPE_NAME \in jt)
               ELSE f

\* Lines 68-69.
RemoteFilter(f, rm) ==
    IF rm # {} THEN SelectSeq(f, LAMBDA r : r.REMOTE_TYPE_NAME \in rm)
               ELSE f

\* Lines 71-74 with the salary upper comparison exclusive.
RangeMaskExclusive(r, mn, mx, sr) ==
    /\ SeriesGe(r.MIN_YEARS_EXPERIENCE, mn)
    /\ SeriesLe(r.MAX_YEARS_EXPERIENCE, mx)
    /\ SeriesGe(r.SALARY_FROM, sr[1])
    /\ r.SALARY_TO # NaN /\ r.SALARY_TO < sr[2]

\* Lines 71-74: the boolean mask of one row.
RangeMask(r, mn, mx, sr) ==
    /\ SeriesGe(r.MIN_YEARS_EXPERIENCE, mn)
    /\ SeriesLe(r.MAX_YEARS_EXPERIENCE, mx)
    /\ SeriesGe(r.SALARY_FROM, sr[1])
    /\ SeriesLe(r.SALARY_TO, sr[2])

\* Lines 65-75.
ApplyFilters(d, jt, rm, mn, mx, sr) ==
    LET f1 == JobTypeFilter(d, jt)
        f2 == RemoteFilter(f1, rm)
    IN  SelectSeq(f2, LAMBDA r : RangeMask(r, mn, mx, sr))

-----------------------------------------------------------------------------
(* Series.value_counts().nlargest(10), df.explode, groupby().size() *)

\* n of .nlargest(n) on lines 93, 101, 123 and 131.
TopN == 10

\* One column of a frame, as a sequence of cells.
Column(d, col) == [i \in 1..Len(d) |-> d[i][col]]

\* How often v occurs in a sequence of cells.
CountOf(c, v) == Cardinality({i \in 1..Len(c) : c[i] = v})

\* The distinct non-null values of a sequence of cells (value_counts and
\* groupby drop nulls).
Categories(c) == Range(c) \ {Null}

\* The position at which v first occurs.
FirstIndex(c, v) == CHOOSE i \in 1..Len(c) : c[i] = v /\ \A j \in 1..i - 1 : c[j] # v

\* Every arrangement of the categories S by descending count: sort_values
\* sorts with numpy's default quicksort, which is not stable, so the order
\* among equal counts is whatever the numpy build produces.
RECURSIVE DescendingOrders(_, _)
DescendingOrders(S, c) ==
    IF S = {} THEN {<<>>}
    ELSE LET top == {v \in S : \A w \in S : CountOf(c, v) >= CountOf(c, w)}
         IN  UNION {{<<<<v, CountOf(c, v)>>>> \o t :
                        t \in DescendingOrders(S \ {v}, c)} : v \in top}

\* The one arrangement a stable sort gives: equal counts in order of first
\* occurrence.
RECURSIVE StableOrder(_, _)
StableOrder(S, c) ==
    IF S = {} THEN {<<>>}
    ELSE LET top == {v \in S : \A w \in S : CountOf(c, v) >= CountOf(c, w)}
             v == CHOOSE u \in top :
                     \A w \in top : FirstIndex(c, u) <= FirstIndex(c, w)
         IN  {<<<<v, CountOf(c, v)>>>> \o t : t \in StableOrder(S \ {v}, c)}

\* Series.value_counts(): the possible results, each a sequence of
\* <<category, count>>, nulls dropped, counts descending.
ValueCounts(c) == DescendingOrders(Categories(c), c)

\* The value_counts result left whole.
NLargestUncut(vc, c, n) == {vc}

\* .nlargest(n) on a value_counts result vc (keep='first'): with n >= len it
\* sorts the whole series again (sort_values, any order among ties); with
\* n < len it selects stably, which on the already descending vc is its
\* first n entries.
NLargest(vc, c, n) ==
    IF n >= Len(vc) THEN DescendingOrders(Categories(c), c)
                    ELSE {SubSeq(vc, 1, n)}

\* .value_counts().nlargest(n).reset_index(): the possible tables.
TopCounts(c, n) == UNION {NLargest(vc, c, n) : vc \in ValueCounts(c)}

\* The frame with its sentinel rows left in.
KeepSentinel(d, col, sentinel) == d

\* df[df[col] != sentinel], lines 92, 100, 130 and 160: a null is kept.
DropSentinel(d, col, sentinel) == SelectSeq(d, LAMBDA r : r[col] # sentinel)

\* explode of one row: one row per element, and one row with a null cell for
\* an empty list.
ExplodeRow(r, col) ==
    IF r[col] = <<>> THEN <<[r EXCEPT ![col] = Null]>>
    ELSE [i \in 1..Len(r[col]) |-> [r EXCEPT ![col] = r[col][i]]]

\* explode that drops the rows of empty lists.
RECURSIVE ExplodeDroppingEmpty(_, _)
ExplodeDroppingEmpty(d, col) ==
    IF d = <<>> THEN <<>>
    ELSE (IF Head(d)[col] = <<>> THEN <<>> ELSE ExplodeRow(Head(d), col))
         \o ExplodeDroppingEmpty(Tail(d), col)

\* df.explode(col).
RECURSIVE Explode(_, _)
Explode(d, col) ==
    IF d = <<>> THEN <<>> ELSE ExplodeRow(Head(d), col) \o Explode(Tail(d), col)

\* Sum of the list lengths of a column.
RECURSIVE SumLen(_, _)
SumLen(d, col) ==
    IF d = <<>> THEN 0 ELSE Len(Head(d)[col]) + SumLen(Tail(d), col)

\* Sum of the counts of a table of <<..., count>> rows.
RECURSIVE SumCounts(_)
SumCounts(t) == IF t = <<>> THEN 0 ELSE Head(t)[Len(Head(t))] + SumCounts(Tail(t))

\* Names in the order Python sorts them (by code point); groupby sorts its
\* keys.
IndustryNames ==
    <<"Accommodation", "Construction", "Education", "Finance", "Health Care",
      "Information", "Manufacturing", "Mining", "Real Estate", "Retail Trade",
      "Utilities", "Wholesale Trade">>

SkillNames ==
    <<"AWS", "Ansible", "C++", "Docker", "Excel", "Git", "Java", "Kubernetes",
      "Linux", "PMP", "Python", "SQL", "Tableau">>

Rank(order, v) == CHOOSE i \in 1..Len(order) : order[i] = v

\* (industry, skill) keys in sorted order.
KeyBefore(a, b) ==
    \/ Rank(IndustryNames, a[1]) < Rank(IndustryNames, b[1])
    \/ /\ a[1] = b[1]
       /\ Rank(SkillNames, a[2]) < Rank(SkillNames, b[2])

RECURSIVE SortedKeys(_)
SortedKeys(S) ==
    IF S = {} THEN <<>>
    ELSE LET m == CHOOSE x \in S : \A y \in S \ {x} : KeyBefore(x, y)
         IN  <<m>> \o SortedKeys(S \ {m})

\* exploded.groupby(['NAICS2_NAME', col]).size().reset_index(name='count'):
\* one <<industry, skill, count>> per pair that occurs, keys with a null
\* dropped, sorted by (industry, skill).
GroupSizes(d, col) ==
    LET keys == {<<d[i].NAICS2_NAME, d[i][col]>> : i \in
                    {j \in 1..Len(d) : d[j].NAICS2_NAME # Null /\ d[j][col] # Null}}
        size(k) == Cardinality({i \in 1..Len(d) :
                        d[i].NAICS2_NAME = k[1] /\ d[i][col] = k[2]})
        sorted == SortedKeys(keys)
    IN  [i \in 1..Len(sorted) |-> <<sorted[i][1], sorted[i][2], size(sorted[i])>>]

\* The mean of the two salary bounds that is null when either is.
RowMeanPropagatingNull(r) ==
    IF r.SALARY_FROM = NaN \/ r.SALARY_TO = NaN THEN NaN
    ELSE (r.SALARY_FROM + r.SALARY_TO) \div 2

\* filtered_df[['SALARY_FROM', 'SALARY_TO']].mean(axis=1) of one row:
\* skipna=True, so the mean is over the bounds that are present, and NaN only
\* when both are null.  (The model's salaries are even, so the mean of two
\* is exact.)
RowMean(r) ==
    IF r.SALARY_FROM = NaN /\ r.SALARY_TO = NaN THEN NaN
    ELSE IF r.SALARY_FROM = NaN THEN r.SALARY_TO
    ELSE IF r.SALARY_TO = NaN THEN r.SALARY_FROM
    ELSE (r.SALARY_FROM + r.SALARY_TO) \div 2

\* Line 116: the frame with its Average_Salary column.
WithAverageSalary(d) ==
    [i \in 1..Len(d) |->
        [c \in DOMAIN d[i] \cup {"Average_Salary"} |->
            IF c = "Average_Salary" THEN RowMean(d[i]) ELSE d[i][c]]]

\* px.histogram(x='Average_Salary'): the values that are binned, nulls left
\* out.
HistogramValues(d) ==
    LET kept == SelectSeq(d, LAMBDA r : r.Average_Salary # NaN)
    IN  [i \in 1..Len(kept) |-> kept[i].Average_Salary]

\* columns_needed, lines 27-32: the column order of the frame.
Columns ==
    <<"TITLE_NAME", "SALARY_FROM", "SALARY_TO", "MIN_YEARS_EXPERIENCE",
      "MAX_YEARS_EXPERIENCE", "SKILLS_NAME", "EMPLOYMENT_TYPE_NAME",
      "REMOTE_TYPE_NAME", "COMPANY_NAME", "MIN_EDULEVELS_NAME",
      "SOC_2021_5_NAME", "NAICS2_NAME", "NAICS4_NAME", "NAICS6_NAME",
      "SPECIALIZED_SKILLS_NAME", "CERTIFICATIONS_NAME", "COMMON_SKILLS_NAME",
      "MSA_NAME">>

NumericColumns ==
    {"SALARY_FROM", "SALARY_TO", "MIN_YEARS_EXPERIENCE", "MAX_YEARS_EXPERIENCE"}

\* The columns line 38 cleans into lists.
SkillColumns ==
    {"SKILLS_NAME", "SPECIALIZED_SKILLS_NAME", "CERTIFICATIONS_NAME",
     "COMMON_SKILLS_NAME"}

\* One cell as to_csv writes it: a null as the empty field.
CsvField(col, v) ==
    IF col \in NumericColumns THEN (IF v = NaN THEN <<>> ELSE <<"number", v>>)
    ELSE IF col \in SkillColumns THEN <<"list", v>>
    ELSE IF col = "REMOTE_TYPE_NAME"
    THEN (IF v = NullText THEN <<>> ELSE <<"text", v>>)
    ELSE (IF v = Null THEN <<>> ELSE <<"text", v>>)

\* filtered_df.to_csv(index=False): the header line, then one line per row.
ToCsv(d) ==
    <<Columns>> \o
    [i \in 1..Len(d) |->
        [j \in 1..Len(Columns) |-> CsvField(Columns[j], d[i][Columns[j]])]]

-----------------------------------------------------------------------------
(* Rows and filter settings the specifications draw from *)

\* Longest row set of SpecFilter.
MaxFilterRows == 2

\* Slider bounds and defaults of lines 60-62.
MinExpSliderMax == 20

MaxExpSliderMax == 30

SalaryDefaultHigh == 200000

\* A posting that passes the tight settings exactly at their boundaries.
BaseRow ==
    [TITLE_NAME |-> "Engineer",
     SALARY_FROM |-> 60000,
     SALARY_TO |-> 100000,
     MIN_YEARS_EXPERIENCE |-> 2,
     MAX_YEARS_EXPERIENCE |-> 5,
     SKILLS_NAME |-> <<"Python">>,
     EMPLOYMENT_TYPE_NAME |-> "Full-time",
     REMOTE_TYPE_NAME |-> <<"Remote">>,
     COMPANY_NAME |-> "Acme",
     MIN_EDULEVELS_NAME |-> "Bachelor",
     SOC_2021_5_NAME |-> "Developers",
     NAICS2_NAME |-> "Information",
     NAICS4_NAME |-> "Software Publishers",
     NAICS6_NAME |-> "Software Publishers",
     SPECIALIZED_SKILLS_NAME |-> <<"Python">>,
     CERTIFICATIONS_NAME |-> <<>>,
     COMMON_SKILLS_NAME |-> <<>>,
     MSA_NAME |-> "Austin"]

\* BaseRow with one filtered column changed: another category, a value on the
\* failing side of a boundary, or a null.
FilterRowPool ==
    <<BaseRow,
      [BaseRow EXCEPT !.EMPLOYMENT_TYPE_NAME = "Part-time"],
      [BaseRow EXCEPT !.EMPLOYMENT_TYPE_NAME = Null],
      [BaseRow EXCEPT !.REMOTE_TYPE_NAME = NullText],
      [BaseRow EXCEPT !.REMOTE_TYPE_NAME = <<"[None]">>],
      [BaseRow EXCEPT !.REMOTE_TYPE_NAME = <<" ", "Hybrid", " ">>],
      [BaseRow EXCEPT !.MIN_YEARS_EXPERIENCE = NaN],
      [BaseRow EXCEPT !.MIN_YEARS_EXPERIENCE = 0],
      [BaseRow EXCEPT !.MAX_YEARS_EXPERIENCE = NaN],
      [BaseRow EXCEPT !.MAX_YEARS_EXPERIENCE = 30],
      [BaseRow EXCEPT !.SALARY_FROM = NaN],
      [BaseRow EXCEPT !.SALARY_FROM = 50000],
      [BaseRow EXCEPT !.SALARY_TO = NaN],
      [BaseRow EXCEPT !.SALARY_TO = 250000]>>

\* The frames of at most n rows drawn from a pool, in pool order (a row may
\* repeat).
FramesOf(pool, n) ==
    UNION {{[i \in 1..k |-> pool[ix[i]]] :
                ix \in {jx \in [1..k -> 1..Len(pool)] :
                            \A i \in 1..k - 1 : jx[i] <= jx[i + 1]}} :
           k \in 0..n}

JobTypeChoices == {{}, {"Full-time"}, {"Part-time"}}

RemoteChoices == {{}, {<<"Remote">>}, {<<"Unspecified">>, <<"Hybrid">>}}

MinExpChoices == {0, 2}

MaxExpChoices == {5, MaxExpSliderMax}

SalaryChoices == {<<0, SalaryDefaultHigh>>, <<60000, 100000>>}

\* A filter setting: the five widget values.
FilterSettings ==
    [job_type : JobTypeChoices, remote : RemoteChoices, min_exp : MinExpChoices,
     max_exp : MaxExpChoices, salary_range : SalaryChoices]

\* The widget values before any interaction (lines 55-62 defaults).
DefaultSetting ==
    [job_type |-> {}, remote |-> {}, min_exp |-> 0, max_exp |-> MaxExpSliderMax,
     salary_range |-> <<0, SalaryDefaultHigh>>]

\* Lines 65-75 under one setting.
FilterBy(d, s) ==
    ApplyFilters(d, s.job_type, s.remote, s.min_exp, s.max_exp, s.salary_range)

\* The second setting of a two-pass filter: its three range sliders are all at
\* their defaults or all tight.
SecondSettings ==
    {s \in FilterSettings :
        \/ /\ s.min_exp = 0 /\ s.max_exp = MaxExpSliderMax
           /\ s.salary_range = <<0, SalaryDefaultHigh>>
        \/ /\ s.min_exp = 2 /\ s.max_exp = 5
           /\ s.salary_range = <<60000, 100000>>}

\* The conjunction of two category sets, where a set stands for "no
\* restriction" when empty.
AndSet(a, b) == IF a = {} THEN b ELSE IF b = {} THEN a ELSE a \cap b

\* Two non-empty disjoint category sets: their conjunction matches nothing,
\* which no filter setting expresses.
Disjoint(a, b) == a # {} /\ b # {} /\ a \cap b = {}

Representable(a, b) ==
    ~Disjoint(a.job_type, b.job_type) /\ ~Disjoint(a.remote, b.remote)

\* The setting whose predicate is the conjunction of two settings' predicates.
AndSetting(a, b) ==
    [job_type |-> AndSet(a.job_type, b.job_type),
     remote |-> AndSet(a.remote, b.remote),
     min_exp |-> Max(a.min_exp, b.min_exp),
     max_exp |-> Min(a.max_exp, b.max_exp),
     salary_range |-> <<Max(a.salary_range[1], b.salary_range[1]),
                        Min(a.salary_range[2], b.salary_range[2])>>]

CurrentSetting ==
    [job_type |-> job_type, remote |-> remote, min_exp |-> min_exp,
     max_exp |-> max_exp, salary_range |-> salary_range]

NoCharts == [name |-> "none"]

NoProbe == [kind |-> "none"]

NoCache == [k \in {} |-> <<>>]

NoCalls == [k \in {} |-> 0]

-----------------------------------------------------------------------------
(* SpecFilter: the filter pipeline as a function of (rows, settings) *)

InitFilter ==
    /\ dataset = <<>>
    /\ cache = NoCache
    /\ calls = NoCalls
    /\ msa = "Austin"
    /\ df \in FramesOf(FilterRowPool, MaxFilterRows)
    /\ job_type = DefaultSetting.job_type
    /\ remote = DefaultSetting.remote
    /\ min_exp = DefaultSetting.min_exp
    /\ max_exp = DefaultSetting.max_exp
    /\ salary_range = DefaultSetting.salary_range
    /\ filtered_df = <<>>
    /\ csv = <<>>
    /\ charts = NoCharts
    /\ status = "loaded"
    /\ probe = NoProbe

\* Lines 55-75 under the widget values s.
FilterRun(s) ==
    /\ status = "loaded"
    /\ df' = NormalizeRemote(df)
    /\ job_type' = s.job_type
    /\ remote' = s.remote
    /\ min_exp' = s.min_exp
    /\ max_exp' = s.max_exp
    /\ salary_range' = s.salary_range
    /\ filtered_df' = FilterBy(df', s)
    /\ status' = "filtered"
    /\ UNCHANGED <<dataset, cache, calls, msa, csv, charts, probe>>

\* Lines 65-75 once more, on the filtered frame, under a second setting b;
\* with it the two passes in the other order and the single pass under the
\* conjunction of the two settings.
SecondPass(b) ==
    /\ status = "filtered"
    /\ probe' = [kind |-> "second",
                 setting |-> b,
                 ab |-> FilterBy(filtered_df, b),
                 ba |-> FilterBy(FilterBy(df, b), CurrentSetting),
                 representable |-> Representable(CurrentSetting, b),
                 once |-> IF Representable(CurrentSetting, b)
                          THEN FilterBy(df, AndSetting(CurrentSetting, b))
                          ELSE <<>>]
    /\ status' = "refiltered"
    /\ UNCHANGED <<dataset, cache, calls, msa, df, job_type, remote, min_exp,
                   max_exp, salary_range, filtered_df, csv, charts>>

NextFilter ==
    \/ \E s \in FilterSettings : FilterRun(s)
    \/ \E b \in SecondSettings : SecondPass(b)

SpecFilter == InitFilter /\ [][NextFilter]_vars

-----------------------------------------------------------------------------
(* The Filter Engine's contract, checked under SpecFilter *)

EmploymentKept(r) == job_type = {} \/ r.EMPLOYMENT_TYPE_NAME \in job_type

RemoteKept(r) == remote = {} \/ r.REMOTE_TYPE_NAME \in remote

RangesKept(r) ==
    /\ r.MIN_YEARS_EXPERIENCE # NaN /\ r.MIN_YEARS_EXPERIENCE >= min_exp
    /\ r.MAX_YEARS_EXPERIENCE # NaN /\ r.MAX_YEARS_EXPERIENCE <= max_exp
    /\ r.SALARY_FROM # NaN /\ r.SALARY_FROM >= salary_range[1]
    /\ r.SALARY_TO # NaN /\ r.SALARY_TO <= salary_range[2]

\* A row with a null in one of the four compared numeric columns.
HasNullCompared(r) ==
    \/ r.MIN_YEARS_EXPERIENCE = NaN \/ r.MAX_YEARS_EXPERIENCE = NaN
    \/ r.SALARY_FROM = NaN \/ r.SALARY_TO = NaN

Filtered == status \in {"filtered", "refiltered"}

\* C1: the filter's output is exactly the rows of the normalized frame whose
\* employment type is in employment_types (or that set is empty), whose
\* remote type is in remote_types (or that set is empty), and whose four
\* compared numeric fields are non-null and within their inclusive bounds.
C1_FilterExact ==
    Filtered =>
        filtered_df =
            SelectSeq(df, LAMBDA r :
                EmploymentKept(r) /\ RemoteKept(r) /\ RangesKept(r))

\* C1 witness: under the tight salary range a row lying exactly on both
\* salary bounds is kept while a row with a null compared field is dropped.
C1_Witness ==
    /\ Filtered
    /\ salary_range = <<60000, 100000>>
    /\ \E i \in 1..Len(filtered_df) :
            /\ filtered_df[i].SALARY_FROM = 60000
            /\ filtered_df[i].SALARY_TO = 100000
    /\ \E j \in 1..Len(df) : HasNullCompared(df[j])
    /\ Len(filtered_df) < Len(df)

\* C2: filtering in two passes under settings A then B gives the same rows
\* as the two passes in the order B then A, and the same rows as one pass
\* under the conjunction of A and B (no row at all when the conjunction asks
\* for two disjoint non-empty category sets).
C2_TwoPassIsConjunction ==
    status = "refiltered" =>
        /\ probe.ab = probe.ba
        /\ probe.representable => probe.ab = probe.once
        /\ ~probe.representable => probe.ab = <<>>
        /\ probe.ab =
              SelectSeq(df, LAMBDA r :
                  /\ EmploymentKept(r) /\ RemoteKept(r) /\ RangesKept(r)
                  /\ r \in Range(FilterBy(<<r>>, probe.setting)))

\* C2 witness: the first pass drops one of two rows, the second pass (under
\* a setting that restricts another group) drops the other.
C2_Witness ==
    /\ status = "refiltered"
    /\ probe.representable
    /\ Len(df) = 2 /\ Len(filtered_df) = 1 /\ Len(probe.ab) = 0
    /\ probe.setting # CurrentSetting

\* C3 as stated: with both category sets empty the filter returns the row
\* set unchanged (stated here only for row sets none of whose non-null
\* compared fields lies outside the slider ranges).
C3_Original ==
    (/\ Filtered /\ job_type = {} /\ remote = {}
     /\ \A i \in 1..Len(df) :
            /\ df[i].MIN_YEARS_EXPERIENCE \in {NaN} \cup (min_exp..MinExpSliderMax)
            /\ df[i].MAX_YEARS_EXPERIENCE \in {NaN} \cup (0..max_exp)
            /\ df[i].SALARY_FROM = NaN \/ df[i].SALARY_FROM >= salary_range[1]
            /\ df[i].SALARY_TO = NaN \/ df[i].SALARY_TO <= salary_range[2])
    => filtered_df = df

\* C3 amended: an empty category set restricts nothing: with employment_types
\* empty the output is what the remote and range groups alone keep, with
\* remote_types empty what the employment and range groups alone keep, and
\* with both empty the output is the row set less the rows that fail a range
\* predicate (among them every row with a null compared field).
C3_EmptySetNoRestriction ==
    Filtered =>
        /\ job_type = {} =>
              filtered_df =
                  SelectSeq(df, LAMBDA r : RemoteKept(r) /\ RangesKept(r))
        /\ remote = {} =>
              filtered_df =
                  SelectSeq(df, LAMBDA r : EmploymentKept(r) /\ RangesKept(r))
        /\ (job_type = {} /\ remote = {}) =>
              /\ filtered_df = SelectSeq(df, LAMBDA r : RangesKept(r))
              /\ (\A i \in 1..Len(df) : RangesKept(df[i])) => filtered_df = df

\* C3 witness: both category sets are empty and two rows of different
\* employment and remote types, one of them without employment type, are
\* all kept.
C3_Witness ==
    /\ Filtered /\ job_type = {} /\ remote = {}
    /\ Len(df) = 2 /\ filtered_df = df
    /\ \E i, j \in 1..2 :
            /\ df[i].EMPLOYMENT_TYPE_NAME = Null
            /\ df[j].REMOTE_TYPE_NAME = <<"Hybrid">>

-----------------------------------------------------------------------------
(* SpecAgg: the CSV export and the chart tables as functions of filtered_df *)

\* Most distinct categories of a column in the frames of SpecAgg.
MaxCategories == 11

\* Longest frame drawn from AggRowPool.
MaxAggRows == 2

OccupationNames ==
    <<"Accountants", "Analysts", "Architects", "Cashiers", "Designers",
      "Developers", "Electricians", "Managers", "Nurses", "Teachers",
      "Technicians", "Writers">>

CompanyNames ==
    <<"Acme", "Beta", "Cyberdyne", "Dunder", "Exotech", "Fabrikam", "Globex",
      "Hooli", "Initech", "Jupiter", "Krusty", "Lumon">>

\* The skill of the k-th category.
WideSkillNames ==
    <<"AWS", "Ansible", "C++", "Docker", "Excel", "Git", "Java", "Kubernetes",
      "Linux", "Python", "SQL", "Tableau">>

\* A row whose three classified columns all hold their sentinel, without
\* specialized skills.
SentinelRow ==
    [BaseRow EXCEPT !.NAICS2_NAME = "Unclassified Industry",
                    !.SOC_2021_5_NAME = "Unclassified Occupation",
                    !.COMPANY_NAME = "Unclassified",
                    !.SPECIALIZED_SKILLS_NAME = <<>>]

\* The k-th category of every classified column, with the k-th skill and, in
\* every second category, the first skill after it.
WideRow(k) ==
    [BaseRow EXCEPT !.NAICS2_NAME = IndustryNames[k],
                    !.SOC_2021_5_NAME = OccupationNames[k],
                    !.COMPANY_NAME = CompanyNames[k],
                    !.SPECIALIZED_SKILLS_NAME =
                        IF k % 2 = 1 THEN <<WideSkillNames[k]>>
                        ELSE <<WideSkillNames[k], WideSkillNames[1]>>]

Repeat(r, n) == [i \in 1..n |-> r]

\* Category k occurs (k + 1) \div 2 times: later categories are more
\* frequent and neighbours tie.
RECURSIVE WideBlocks(_, _)
WideBlocks(k, K) ==
    IF k > K THEN <<>>
    ELSE Repeat(WideRow(k), (k + 1) \div 2) \o WideBlocks(k + 1, K)

\* s sentinel rows, then K categories.
WideFrame(K, s) == Repeat(SentinelRow, s) \o WideBlocks(1, K)

\* BaseRow with one aggregated column changed.
AggRowPool ==
    <<BaseRow,
      [BaseRow EXCEPT !.NAICS2_NAME = "Unclassified Industry"],
      [BaseRow EXCEPT !.NAICS2_NAME = Null],
      [BaseRow EXCEPT !.NAICS2_NAME = "Health Care",
                      !.SPECIALIZED_SKILLS_NAME = <<"SQL", "Python">>,
                      !.CERTIFICATIONS_NAME = <<"PMP">>],
      [BaseRow EXCEPT !.SOC_2021_5_NAME = "Unclassified Occupation"],
      [BaseRow EXCEPT !.COMPANY_NAME = "Unclassified"],
      [BaseRow EXCEPT !.COMPANY_NAME = "Beta", !.MIN_EDULEVELS_NAME = Null],
      [BaseRow EXCEPT !.SPECIALIZED_SKILLS_NAME = <<>>],
      [BaseRow EXCEPT !.SPECIALIZED_SKILLS_NAME = <<"SQL", "SQL">>],
      [BaseRow EXCEPT !.SALARY_FROM = NaN],
      [BaseRow EXCEPT !.SALARY_TO = NaN],
      [BaseRow EXCEPT !.SALARY_FROM = NaN, !.SALARY_TO = NaN],
      [BaseRow EXCEPT !.SALARY_FROM = 40000, !.SALARY_TO = 40000,
                      !.MIN_EDULEVELS_NAME = "Master"]>>

InitAgg ==
    /\ dataset = <<>>
    /\ cache = NoCache
    /\ calls = NoCalls
    /\ msa = "Austin"
    /\ df \in {WideFrame(K, s) : K \in 0..MaxCategories, s \in {0, 1, 7}}
             \cup FramesOf(AggRowPool, MaxAggRows)
    /\ job_type = DefaultSetting.job_type
    /\ remote = DefaultSetting.remote
    /\ min_exp = DefaultSetting.min_exp
    /\ max_exp = DefaultSetting.max_exp
    /\ salary_range = DefaultSetting.salary_range
    /\ filtered_df = FilterBy(df, DefaultSetting)
    /\ csv = <<>>
    /\ charts = NoCharts
    /\ status = "filtered"
    /\ probe = NoProbe

\* The frame is filtered_df as line 75 left it, or with Average_Salary.
Framed == status \in {"filtered", "averaged"}

AggUnchanged ==
    UNCHANGED <<dataset, cache, calls, msa, df, job_type, remote, min_exp,
                max_exp, salary_range, probe>>

\* Lines 79-88.
DownloadCsv ==
    /\ status = "filtered"
    /\ csv' = ToCsv(filtered_df)
    /\ status' = "csv"
    /\ UNCHANGED <<filtered_df, charts>> /\ AggUnchanged

\* Lines 90-96.
TopIndustries ==
    /\ status = "filtered"
    /\ LET industry_filtered ==
               DropSentinel(filtered_df, "NAICS2_NAME", "Unclassified Industry")
       IN  \E industry_counts \in
                   TopCounts(Column(industry_filtered, "NAICS2_NAME"), TopN) :
               charts' = [name |-> "industry_counts", table |-> industry_counts]
    /\ status' = "chart"
    /\ UNCHANGED <<filtered_df, csv>> /\ AggUnchanged

\* Lines 99-111.
TopOccupations ==
    /\ status = "filtered"
    /\ LET soc_filtered ==
               DropSentinel(filtered_df, "SOC_2021_5_NAME",
                            "Unclassified Occupation")
       IN  \E soc_counts \in
                   TopCounts(Column(soc_filtered, "SOC_2021_5_NAME"), TopN) :
               charts' = [name |-> "soc_counts", table |-> soc_counts]
    /\ status' = "chart"
    /\ UNCHANGED <<filtered_df, csv>> /\ AggUnchanged

\* Lines 115-118: the column is added to filtered_df itself.
SalaryDistribution ==
    /\ status = "filtered"
    /\ filtered_df' = WithAverageSalary(filtered_df)
    /\ charts' = [name |-> "fig2", table |-> HistogramValues(filtered_df')]
    /\ status' = "averaged"
    /\ UNCHANGED csv /\ AggUnchanged

\* Lines 121-126.
TopSkills ==
    /\ Framed
    /\ LET exploded_skills == Explode(filtered_df, "SPECIALIZED_SKILLS_NAME")
       IN  \E top_skills \in
                   TopCounts(Column(exploded_skills, "SPECIALIZED_SKILLS_NAME"),
                             TopN) :
               charts' = [name |-> "top_skills", table |-> top_skills,
                          exploded_skills |-> exploded_skills]
    /\ status' = "chart"
    /\ UNCHANGED <<filtered_df, csv>> /\ AggUnchanged

\* Lines 129-141.
TopCompanies ==
    /\ Framed
    /\ \E top_companies \in
              TopCounts(Column(DropSentinel(filtered_df, "COMPANY_NAME",
                                            "Unclassified"),
                               "COMPANY_NAME"), TopN) :
           charts' = [name |-> "top_companies", table |-> top_companies]
    /\ status' = "chart"
    /\ UNCHANGED <<filtered_df, csv>> /\ AggUnchanged

\* Lines 145-149.
EducationLevels ==
    /\ Framed
    /\ \E edu_counts \in ValueCounts(Column(filtered_df, "MIN_EDULEVELS_NAME")) :
           charts' = [name |-> "edu_counts", table |-> edu_counts]
    /\ status' = "chart"
    /\ UNCHANGED <<filtered_df, csv>> /\ AggUnchanged

\* Lines 158-162 for one skill column.
SkillData(d, skill_col) ==
    GroupSizes(DropSentinel(Explode(d, skill_col), "NAICS2_NAME",
                            "Unclassified Industry"), skill_col)

\* Lines 153-164, one pass of the loop.
TreeMap(skill_col) ==
    /\ Framed
    /\ charts' = [name |-> "skill_data", skill_col |-> skill_col,
                  table |-> SkillData(filtered_df, skill_col),
                  exploded_skills |-> Explode(filtered_df, skill_col)]
    /\ status' = "chart"
    /\ UNCHANGED <<filtered_df, csv>> /\ AggUnchanged

NextAgg ==
    \/ DownloadCsv
    \/ TopIndustries
    \/ TopOccupations
    \/ SalaryDistribution
    \/ TopSkills
    \/ TopCompanies
    \/ EducationLevels
    \/ \E skill_col \in {"SPECIALIZED_SKILLS_NAME", "CERTIFICATIONS_NAME"} :
          TreeMap(skill_col)

SpecAgg == InitAgg /\ [][NextAgg]_vars

-----------------------------------------------------------------------------
(* The Aggregation Set's contract, checked under SpecAgg *)

\* The categories of a table of <<category, ..., count>> rows.
TableCategories(t) == {t[i][1] : i \in 1..Len(t)}

\* The chart of the current state is the one named n.
Chart(n) == status = "chart" /\ charts.name = n

\* The sentinel of a chart's column, and the column.
SentinelOf(n) ==
    CASE n = "industry_counts" -> "Unclassified Industry"
      [] n = "soc_counts" -> "Unclassified Occupation"
      [] n = "top_companies" -> "Unclassified"

ColumnOf(n) ==
    CASE n = "industry_counts" -> "NAICS2_NAME"
      [] n = "soc_counts" -> "SOC_2021_5_NAME"
      [] n = "top_companies" -> "COMPANY_NAME"
      [] n = "top_skills" -> "SPECIALIZED_SKILLS_NAME"

SentinelCharts == {"industry_counts", "soc_counts", "top_companies"}

\* C4: the tables of top_industries, top_occupations and top_companies never
\* hold their sentinel category, while computing them leaves filtered_df as
\* it was and the CSV export has one line per row of filtered_df, sentinel
\* rows included.
C4_SentinelExcluded ==
    [][/\ (status' = "chart" /\ charts'.name \in SentinelCharts) =>
            /\ SentinelOf(charts'.name) \notin TableCategories(charts'.table)
            /\ filtered_df' = filtered_df
       /\ status' = "csv" =>
            /\ filtered_df' = filtered_df
            /\ Len(csv') = Len(filtered_df) + 1
            /\ \A i \in 1..Len(filtered_df) :
                  \A n \in SentinelCharts :
                      filtered_df[i][ColumnOf(n)] = SentinelOf(n) =>
                          csv'[i + 1][Rank(Columns, ColumnOf(n))]
                              = <<"text", SentinelOf(n)>>]_vars

\* C4 witness: the sentinel is the most frequent industry of filtered_df and
\* the industry table is not empty.
C4_Witness ==
    /\ Chart("industry_counts")
    /\ charts.table # <<>>
    /\ \A i \in 1..Len(charts.table) :
          CountOf(Column(filtered_df, "NAICS2_NAME"), "Unclassified Industry")
              > charts.table[i][2]

ExplodedCharts == {"top_skills", "skill_data"}

ExplodedColumn ==
    IF charts.name = "skill_data" THEN charts.skill_col
    ELSE "SPECIALIZED_SKILLS_NAME"

\* Number of rows of d whose list in col is empty.
EmptyLists(d, col) == Cardinality({i \in 1..Len(d) : d[i][col] = <<>>})

\* C5 as stated: the exploded frame has as many rows as the lists have
\* elements in total, a row with an empty list contributing none.
C5_Original ==
    (status = "chart" /\ charts.name \in ExplodedCharts) =>
        Len(charts.exploded_skills) = SumLen(filtered_df, ExplodedColumn)

\* C5 amended: exploding gives one row per list element and one row with a
\* null skill per empty list, so the exploded frame has sum(len) +
\* (number of empty lists) rows, sum(len) of them with a skill; the null
\* skills are not counted: the counts of top_skills sum to sum(len) when at
\* most 10 skills occur (and to less otherwise), and the counts of
\* skill_by_industry sum to the total list length of the rows whose industry
\* is neither the sentinel nor null.
C5_ExplodeCounts ==
    (status = "chart" /\ charts.name \in ExplodedCharts) =>
        LET col == ExplodedColumn
            ex == charts.exploded_skills
            skills == Categories(Column(ex, col))
            classified ==
                SelectSeq(filtered_df, LAMBDA r :
                    r.NAICS2_NAME \notin {"Unclassified Industry", Null})
        IN  /\ Len(ex) = SumLen(filtered_df, col) + EmptyLists(filtered_df, col)
            /\ CountOf(Column(ex, col), Null) = EmptyLists(filtered_df, col)
            /\ charts.name = "top_skills" =>
                  /\ SumCounts(charts.table) <= SumLen(filtered_df, col)
                  /\ Cardinality(skills) <= TopN =>
                        SumCounts(charts.table) = SumLen(filtered_df, col)
            /\ charts.name = "skill_data" =>
                  SumCounts(charts.table) = SumLen(classified, col)

\* C5 witness: top_skills over a frame with an empty list and a list of two
\* skills.
C5_Witness ==
    /\ Chart("top_skills")
    /\ EmptyLists(filtered_df, "SPECIALIZED_SKILLS_NAME") > 0
    /\ \E i \in 1..Len(filtered_df) :
          Len(filtered_df[i].SPECIALIZED_SKILLS_NAME) = 2
    /\ SumCounts(charts.table) = SumLen(filtered_df, "SPECIALIZED_SKILLS_NAME")

TopCharts == {"industry_counts", "soc_counts", "top_skills", "top_companies"}

\* The cells a top-N chart counts: its column of filtered_df (exploded for
\* top_skills) without the sentinel rows.
CountedCells(n) ==
    IF n = "top_skills"
    THEN Column(Explode(filtered_df, ColumnOf(n)), ColumnOf(n))
    ELSE Column(SelectSeq(filtered_df, LAMBDA r : r[ColumnOf(n)] # SentinelOf(n)),
                ColumnOf(n))

\* C6 as stated: every top-N table is the first 10 entries of the
\* categories sorted by descending count with ties in order of first
\* occurrence.
C6_Original ==
    (status = "chart" /\ charts.name \in TopCharts) =>
        LET c == CountedCells(charts.name)
        IN  \E full \in StableOrder(Categories(c), c) :
                charts.table = SubSeq(full, 1, Min(TopN, Len(full)))

\* C6 amended: every top-N table lists distinct non-null categories, each
\* with the exact number of counted rows of that category, in descending
\* order of count, holds min(10, number of categories) entries, and omits no
\* category with a count greater than an included one; the order among
\* categories of equal count (and which of them the cut keeps) is not fixed.
C6_TopN ==
    (status = "chart" /\ charts.name \in TopCharts) =>
        LET c == CountedCells(charts.name)
            t == charts.table
        IN  /\ Len(t) = Min(TopN, Cardinality(Categories(c)))
            /\ \A i \in 1..Len(t) :
                  /\ t[i][1] \in Categories(c)
                  /\ t[i][2] = CountOf(c, t[i][1])
            /\ \A i, j \in 1..Len(t) :
                  /\ i < j => t[i][2] >= t[j][2]
                  /\ i # j => t[i][1] # t[j][1]
            /\ \A v \in Categories(c) \ TableCategories(t) :
                  \A i \in 1..Len(t) : CountOf(c, v) <= t[i][2]

\* C6 witness: more than 10 industries, so the table is cut to 10, and a
\* category left out has the same count as one that is in.
C6_Witness ==
    /\ Chart("industry_counts")
    /\ Len(charts.table) = TopN
    /\ \E v \in Categories(CountedCells("industry_counts"))
                   \ TableCategories(charts.table) :
          CountOf(CountedCells("industry_counts"), v) = charts.table[TopN][2]

-----------------------------------------------------------------------------
(* load_msa_data, lines 25-42 *)

\* Python values a skill cell can hold: None, a str (its text as tokens) and,
\* once cleaned, a list of strings.
PyNone == [py |-> "None"]

PyStr(toks) == [py |-> "str", toks |-> toks]

PyList(items) == [py |-> "list", items |-> items]

\* Tokens of a serialized list literal.
LBracket == <<"[">>

RBracket == <<"]">>

Comma == <<",">>

Quoted(text) == <<"'", text>>

IsQuoted(t) == Len(t) = 2 /\ t[1] = "'"

Returned(v) == [raised |-> FALSE, value |-> v]

Raised(e) == [raised |-> TRUE, error |-> e]

\* The elements of a list display after its "[": quoted strings separated
\* by commas, a trailing comma allowed, closed by the last token "]".
RECURSIVE ParseElements(_, _, _)
ParseElements(toks, acc, wantElement) ==
    IF toks = <<>> THEN Raised("SyntaxError")
    ELSE IF Head(toks) = RBracket
    THEN (IF Len(toks) = 1 THEN Returned(acc) ELSE Raised("SyntaxError"))
    ELSE IF wantElement
    THEN (IF IsQuoted(Head(toks))
          THEN ParseElements(Tail(toks), Append(acc, Head(toks)[2]), FALSE)
          ELSE Raised("SyntaxError"))
    ELSE (IF Head(toks) = Comma /\ Len(toks) > 1 /\ toks[2] # Comma
          THEN ParseElements(Tail(toks), acc, TRUE)
          ELSE Raised("SyntaxError"))

\* ast.literal_eval on the text of a cell: a flat list display of string
\* literals evaluates to the list of their texts; the other texts of the
\* model (a display that is never closed, an empty text) are syntax errors.
LiteralEval(toks) ==
    IF toks # <<>> /\ Head(toks) = LBracket
    THEN ParseElements(Tail(toks), <<>>, TRUE)
    ELSE Raised("SyntaxError")

\* The lambda of line 40, ast.literal_eval(x) if pd.notnull(x) else [].
\* On None, notnull is False.  On a str it is True.  On a list, notnull is
\* an array: its truth value is ambiguous for two or more elements
\* (ValueError); for one element it is True and literal_eval rejects the
\* list (ValueError); for none, bool() of the empty array is False in numpy
\* builds before 2.2 and a ValueError from 2.2 on.
Clean(x, emptyArrayIsFalse) ==
    CASE x.py = "None" -> Returned(<<>>)
      [] x.py = "str" -> LiteralEval(x.toks)
      [] x.py = "list" ->
            IF x.items = <<>> /\ emptyArrayIsFalse THEN Returned(<<>>)
            ELSE Raised("ValueError")

\* Lines 38-40 on a frame whose skill cells are Python objects: every cell
\* of the four columns through the lambda; the first exception ends the
\* call.
CleanFrame(d, emptyArrayIsFalse) ==
    LET out(i, col) == Clean(d[i][col], emptyArrayIsFalse)
    IN  IF \E i \in 1..Len(d), col \in SkillColumns : out(i, col).raised
        THEN LET bad == CHOOSE k \in (1..Len(d)) \X SkillColumns :
                            out(k[1], k[2]).raised
             IN  [raised |-> TRUE, error |-> out(bad[1], bad[2]).error, df |-> <<>>]
        ELSE [raised |-> FALSE, error |-> "",
              df |-> [i \in 1..Len(d) |->
                        [col \in DOMAIN d[i] |->
                            IF col \in SkillColumns THEN out(i, col).value
                            ELSE d[i][col]]]]

\* A cleaned frame as the lambda sees it: its skill cells are list objects.
AsObjects(d) ==
    [i \in 1..Len(d) |->
        [col \in DOMAIN d[i] |->
            IF col \in SkillColumns THEN PyList(d[i][col]) ELSE d[i][col]]]

\* pq.read_table(..., filters=[("MSA_NAME", "==", msa)]).to_pandas()
ReadTable(data, m) == SelectSeq(data, LAMBDA r : r.MSA_NAME = m)

\* load_msa_data(parquet_bytes, msa): [raised, error, df].
LoadMsaData(data, m) == CleanFrame(ReadTable(data, m), TRUE)

MsaNames == <<"Austin", "Boston">>

RECURSIVE SortedMsas(_)
SortedMsas(S) ==
    IF S = {} THEN <<>>
    ELSE LET m == CHOOSE x \in S :
                    \A y \in S : Rank(MsaNames, x) <= Rank(MsaNames, y)
         IN  <<m>> \o SortedMsas(S \ {m})

\* list_msas_from_parquet(parquet_bytes): sorted(list(set(msa_names))).
ListMsas(data) == SortedMsas(Range(Column(data, "MSA_NAME")))

-----------------------------------------------------------------------------
(* SpecLoad: load_msa_data as a function of (file rows, msa), and its       *)
(* cleaning step applied a second time to its own result                   *)

\* Longest file of SpecLoad.
MaxLoadRows == 2

ListText(items) ==
    <<LBracket>>
    \o [i \in 1..(2 * Len(items) - 1) |->
            IF i % 2 = 1 THEN Quoted(items[(i + 1) \div 2]) ELSE Comma]
    \o <<RBracket>>

\* BaseRow as the parquet file holds it: the skill columns serialized.
RawBaseRow ==
    [col \in DOMAIN BaseRow |->
        IF col \in SkillColumns THEN PyStr(ListText(BaseRow[col]))
        ELSE BaseRow[col]]

\* The cells a skill column takes in the files of SpecLoad: null, the empty
\* list, one and two elements, a trailing comma, and a list never closed.
RawSkillCells ==
    <<PyNone,
      PyStr(ListText(<<>>)),
      PyStr(ListText(<<"SQL">>)),
      PyStr(ListText(<<"SQL", "Python">>)),
      PyStr(<<LBracket, Quoted("SQL"), Comma, RBracket>>),
      PyStr(<<LBracket, Quoted("SQL")>>)>>

\* RawBaseRow with one skill cell changed, and a row of another MSA.
RawRowPool ==
    <<RawBaseRow>>
    \o [i \in 1..Len(RawSkillCells) |->
            [RawBaseRow EXCEPT !.SPECIALIZED_SKILLS_NAME = RawSkillCells[i]]]
    \o [i \in 1..Len(RawSkillCells) |->
            [RawBaseRow EXCEPT !.CERTIFICATIONS_NAME = RawSkillCells[i]]]
    \o <<[RawBaseRow EXCEPT !.SKILLS_NAME = PyNone],
          [RawBaseRow EXCEPT !.COMMON_SKILLS_NAME = PyNone,
                             !.MSA_NAME = "Boston"]>>

InitLoad ==
    /\ dataset \in FramesOf(RawRowPool, MaxLoadRows)
    /\ cache = NoCache
    /\ calls = NoCalls
    /\ msa = "Austin"
    /\ df = <<>>
    /\ job_type = DefaultSetting.job_type
    /\ remote = DefaultSetting.remote
    /\ min_exp = DefaultSetting.min_exp
    /\ max_exp = DefaultSetting.max_exp
    /\ salary_range = DefaultSetting.salary_range
    /\ filtered_df = <<>>
    /\ csv = <<>>
    /\ charts = NoCharts
    /\ status = "started"
    /\ probe = NoProbe

LoadUnchanged ==
    UNCHANGED <<dataset, cache, calls, job_type, remote, min_exp, max_exp,
                salary_range, filtered_df, csv, charts>>

\* load_msa_data(parquet_bytes, m), lines 26-42.
LoadRun(m) ==
    /\ status = "started"
    /\ msa' = m
    /\ LET loaded == LoadMsaData(dataset, m)
       IN  /\ df' = loaded.df
           /\ status' = IF loaded.raised THEN loaded.error ELSE "loaded"
    /\ UNCHANGED probe /\ LoadUnchanged

\* Lines 38-40 applied to the frame load_msa_data returned, under a numpy
\* whose bool() of an empty array is False (emptyArrayIsFalse) or an error.
CleanAgain(emptyArrayIsFalse) ==
    /\ status = "loaded"
    /\ probe' = [kind |-> "recleaned"]
                  @@ CleanFrame(AsObjects(df), emptyArrayIsFalse)
    /\ status' = "recleaned"
    /\ UNCHANGED <<msa, df>> /\ LoadUnchanged

NextLoad ==
    \/ \E m \in Range(MsaNames) : LoadRun(m)
    \/ \E emptyArrayIsFalse \in BOOLEAN : CleanAgain(emptyArrayIsFalse)

SpecLoad == InitLoad /\ [][NextLoad]_vars

\* C8: after the List-Column Normalizer has run no cell of the four skill
\* columns is null (an absent cell is the empty list), and running it again
\* on the normalized frame returns every cell unchanged and raises nothing.
C8_Idempotent ==
    /\ status = "loaded" =>
          \A i \in 1..Len(df) : \A col \in SkillColumns :
              LET raw == (SelectSeq(dataset, LAMBDA r : r.MSA_NAME = msa))[i][col]
              IN  /\ df[i][col] \in Seq(Range(SkillNames))
                  /\ raw = PyNone => df[i][col] = <<>>
    /\ status = "recleaned" => (~probe.raised /\ probe.df = df)

-----------------------------------------------------------------------------
(* Spec: the script, re-run from the top on every interaction *)

\* Longest parquet file of Spec.
MaxRows == 2

DROPBOX_URL ==
    "https://www.dropbox.com/scl/fi/2ajbqq5yqt637kjjez1pk/combined_data_screen7.parquet?rlkey=mun8x2i6teb6h4a9r69jgsk9k&st=wvis2997&dl=1"

\* The rows the parquet files of Spec are made of: two MSAs, every way a
\* remote type is written, nulls, a salary above the default range, a
\* sentinel industry and a serialized list that does not parse.
AppRowPool ==
    <<RawBaseRow,
      [RawBaseRow EXCEPT !.EMPLOYMENT_TYPE_NAME = "Part-time",
                         !.REMOTE_TYPE_NAME = <<"[None]">>,
                         !.SALARY_FROM = 50000,
                         !.NAICS2_NAME = "Unclassified Industry",
                         !.COMPANY_NAME = "Beta",
                         !.SPECIALIZED_SKILLS_NAME = PyNone],
      [RawBaseRow EXCEPT !.EMPLOYMENT_TYPE_NAME = Null,
                         !.REMOTE_TYPE_NAME = NullText,
                         !.SALARY_TO = NaN],
      [RawBaseRow EXCEPT !.REMOTE_TYPE_NAME = <<" ", "Hybrid", " ">>,
                         !.MIN_YEARS_EXPERIENCE = 0,
                         !.MAX_YEARS_EXPERIENCE = 30,
                         !.SALARY_TO = 250000,
                         !.SPECIALIZED_SKILLS_NAME =
                             PyStr(ListText(<<"SQL", "Python">>))],
      [RawBaseRow EXCEPT !.SPECIALIZED_SKILLS_NAME =
                             PyStr(<<LBracket, Quoted("SQL")>>)],
      [RawBaseRow EXCEPT !.MSA_NAME = "Boston"],
      [RawBaseRow EXCEPT !.MSA_NAME = "Boston",
                         !.SALARY_FROM = NaN,
                         !.SALARY_TO = NaN]>>

\* The BytesIO that load_parquet_from_url returns, lines 15-16.
BytesIO(content) == [content |-> content, tell |-> 0]

\* pq.read_table leaves the stream where its last read ended, past the
\* start of the file.
AfterRead(parquet_bytes) ==
    [parquet_bytes EXCEPT !.tell = Len(parquet_bytes.content) + 1]

\* st.cache_data's key of load_msa_data(parquet_bytes, msa): the hash of
\* the arguments; a BytesIO hashes as its contents and its seek position
\* (the contents are those of the one file for the whole process).
LoadKey(parquet_bytes, m) == <<parquet_bytes.tell, m>>

\* st.cache_data's key of list_msas_from_parquet(parquet_bytes).
ListKey(parquet_bytes) == <<parquet_bytes.tell>>

\* A cache that hands out the stored object itself: what the script then
\* does to its df is done to the entry.
StoredAliased(stored, mutated) == mutated

\* st.cache_data keeps the pickled return value and hands out a fresh copy:
\* the entry stays as stored whatever the script does to its df.
Stored(stored, mutated) == stored

\* The widget values a run can see for the frame d (normalized): category
\* selections among the options of the multiselects, lines 55 and 59 (none
\* or one of them), and the sliders at their defaults, all tight, or with
\* the salary range opened to the whole slider, which spans 0 to the larger
\* of its default upper value and int(max SALARY_TO).
AppSettings(d) ==
    LET employment == Range(Column(d, "EMPLOYMENT_TYPE_NAME")) \ {Null}
        remotes == Range(Column(d, "REMOTE_TYPE_NAME"))
        top == CHOOSE v \in Range(Column(d, "SALARY_TO")) :
                   \A w \in Range(Column(d, "SALARY_TO")) : v >= w
        sliderMax == Max(SalaryDefaultHigh, top)
    IN  {s \in [job_type : {{}} \cup {{v} : v \in employment},
                remote : {{}} \cup {{v} : v \in remotes},
                min_exp : {0, 2},
                max_exp : {5, MaxExpSliderMax},
                salary_range : {<<0, SalaryDefaultHigh>>, <<60000, 100000>>,
                                <<0, sliderMax>>}] :
            /\ (s.min_exp = 0) = (s.max_exp = MaxExpSliderMax)
            /\ (s.min_exp = 2) = (s.salary_range = <<60000, 100000>>)}

Init ==
    /\ dataset \in FramesOf(AppRowPool, MaxRows) \ {<<>>}
    /\ cache = [fetch |-> NoCache, list |-> NoCache, load |-> NoCache]
    /\ calls = [load_parquet_from_url |-> 0, list_msas_from_parquet |-> 0,
                load_msa_data |-> [m \in Range(MsaNames) |-> 0]]
    /\ msa = ""
    /\ df = <<>>
    /\ job_type = DefaultSetting.job_type
    /\ remote = DefaultSetting.remote
    /\ min_exp = DefaultSetting.min_exp
    /\ max_exp = DefaultSetting.max_exp
    /\ salary_range = DefaultSetting.salary_range
    /\ filtered_df = <<>>
    /\ csv = <<>>
    /\ charts = NoCharts
    /\ status = "started"
    /\ probe = NoProbe

\* Lines 12-13 fail (network error, raise_for_status): nothing is cached and
\* the run ends there.
FetchFails ==
    /\ DROPBOX_URL \notin DOMAIN cache.fetch
    /\ status' = "SourceFetchError"
    /\ filtered_df' = <<>> /\ csv' = <<>> /\ charts' = NoCharts /\ df' = <<>>
    /\ probe' = [kind |-> "previous", msa |-> msa, kept |-> Len(filtered_df)]
    /\ UNCHANGED <<dataset, cache, calls, msa, job_type, remote, min_exp,
                   max_exp, salary_range>>

\* One run of the script, lines 46-164, with the MSA m selected and the
\* widgets at s.
Run(m, s) ==
    LET fetchHit == DROPBOX_URL \in DOMAIN cache.fetch
        parquet_bytes == IF fetchHit THEN cache.fetch[DROPBOX_URL]
                                     ELSE BytesIO(dataset)
        listHit == ListKey(parquet_bytes) \in DOMAIN cache.list
        available_msas == IF listHit THEN cache.list[ListKey(parquet_bytes)]
                                     ELSE ListMsas(parquet_bytes.content)
        \* parquet_bytes once line 50 has run
        after_list == IF listHit THEN parquet_bytes ELSE AfterRead(parquet_bytes)
        key == LoadKey(after_list, m)
        loadHit == key \in DOMAIN cache.load
        loaded == IF loadHit
                  THEN [raised |-> FALSE, error |-> "", df |-> cache.load[key]]
                  ELSE LoadMsaData(after_list.content, m)
        normalized == NormalizeRemote(loaded.df)
        noSalary == \A i \in 1..Len(normalized) : normalized[i].SALARY_TO = NaN
        filtered == FilterBy(normalized, s)
        averaged == WithAverageSalary(filtered)
    IN  /\ m \in Range(available_msas)
        /\ msa' = m
        /\ probe' = [kind |-> "previous", msa |-> msa, kept |-> Len(filtered_df)]
        /\ cache' =
              [fetch |-> (DROPBOX_URL :> BytesIO(dataset)),
               list |-> IF listHit THEN cache.list
                        ELSE cache.list @@ (ListKey(parquet_bytes) :> available_msas),
               load |-> IF loadHit
                        THEN [k \in DOMAIN cache.load |->
                                 IF k = key THEN Stored(cache.load[k], normalized)
                                 ELSE cache.load[k]]
                        ELSE IF loaded.raised THEN cache.load
                        ELSE cache.load @@ (key :> Stored(loaded.df, normalized))]
        /\ calls' =
              [load_parquet_from_url |->
                   calls.load_parquet_from_url + (IF fetchHit THEN 0 ELSE 1),
               list_msas_from_parquet |->
                   calls.list_msas_from_parquet + (IF listHit THEN 0 ELSE 1),
               load_msa_data |->
                   IF loadHit \/ loaded.raised THEN calls.load_msa_data
                   ELSE [calls.load_msa_data EXCEPT ![m] = @ + 1]]
        /\ UNCHANGED dataset
        /\ IF loaded.raised
           THEN \* line 52 raises: ast.literal_eval rejected a cell
                /\ status' = "MalformedListCell"
                /\ df' = <<>> /\ filtered_df' = <<>> /\ csv' = <<>>
                /\ charts' = NoCharts
                /\ s = CurrentSetting
                /\ UNCHANGED <<job_type, remote, min_exp, max_exp, salary_range>>
           ELSE IF noSalary
           THEN \* line 62 raises: int() of the NaN maximum
                /\ status' = "EmptySalaryDomain"
                /\ df' = normalized /\ filtered_df' = <<>> /\ csv' = <<>>
                /\ charts' = NoCharts
                /\ s = CurrentSetting
                /\ UNCHANGED <<job_type, remote, min_exp, max_exp, salary_range>>
           ELSE /\ s \in AppSettings(normalized)
                /\ status' = "rendered"
                /\ df' = normalized
                /\ job_type' = s.job_type
                /\ remote' = s.remote
                /\ min_exp' = s.min_exp
                /\ max_exp' = s.max_exp
                /\ salary_range' = s.salary_range
                /\ csv' = ToCsv(filtered)
                /\ filtered_df' = averaged
                /\ \E industry_counts \in
                          TopCounts(Column(DropSentinel(filtered, "NAICS2_NAME",
                              "Unclassified Industry"), "NAICS2_NAME"), TopN),
                      soc_counts \in
                          TopCounts(Column(DropSentinel(filtered, "SOC_2021_5_NAME",
                              "Unclassified Occupation"), "SOC_2021_5_NAME"), TopN),
                      top_skills \in
                          TopCounts(Column(Explode(averaged,
                              "SPECIALIZED_SKILLS_NAME"),
                              "SPECIALIZED_SKILLS_NAME"), TopN),
                      top_companies \in
                          TopCounts(Column(DropSentinel(averaged, "COMPANY_NAME",
                              "Unclassified"), "COMPANY_NAME"), TopN),
                      edu_counts \in
                          ValueCounts(Column(averaged, "MIN_EDULEVELS_NAME")) :
                      charts' =
                          [name |-> "all",
                           industry_counts |-> industry_counts,
                           soc_counts |-> soc_counts,
                           fig2 |-> HistogramValues(averaged),
                           top_skills |-> top_skills,
                           top_companies |-> top_companies,
                           edu_counts |-> edu_counts,
                           skill_data |->
                               [skill_col \in {"SPECIALIZED_SKILLS_NAME",
                                               "CERTIFICATIONS_NAME"} |->
                                   SkillData(averaged, skill_col)]]

\* The settings the runs of the model are made with.
AllSettings ==
    [job_type : {{}, {"Full-time"}},
     remote : {{}, {<<"Unspecified">>}},
     min_exp : {0, 2},
     max_exp : {5, MaxExpSliderMax},
     salary_range : {<<0, SalaryDefaultHigh>>, <<60000, 100000>>, <<0, 250000>>}]

Next ==
    \/ FetchFails
    \/ \E m \in Range(MsaNames), s \in AllSettings : Run(m, s)

Spec == Init /\ [][Next]_vars

-----------------------------------------------------------------------------
(* Caching and recomputation, checked under Spec *)

\* C9: the body of load_parquet_from_url has executed at most once for the
\* one source, the body of load_msa_data at most once for each MSA of that
\* source, and the rows a rendered run works on all belong to the selected
\* MSA.
C9_ReadOncePerMsa ==
    /\ calls.load_parquet_from_url <= 1
    /\ \A m \in Range(MsaNames) : calls.load_msa_data[m] <= 1
    /\ status = "rendered" => \A i \in 1..Len(df) : df[i].MSA_NAME = msa

FullSet == NormalizeRemote(LoadMsaData(dataset, msa).df)

\* The rows of FullSet the current widget values keep.
FreshFilter ==
    SelectSeq(FullSet, LAMBDA r :
        EmploymentKept(r) /\ RemoteKept(r) /\ RangesKept(r))

\* C10: whatever runs came before, a rendered run's filtered rows (and its
\* CSV) are the filter applied to the full normalized rows of the selected
\* MSA, and every memoized per-MSA row set is still what load_msa_data
\* returns for that MSA: no run's in-place changes reached it.
C10_FilteredFromFullSet ==
    /\ status = "rendered" =>
          /\ df = FullSet
          /\ filtered_df = WithAverageSalary(FreshFilter)
          /\ csv = ToCsv(FreshFilter)
    /\ \A k \in DOMAIN cache.load :
          cache.load[k] = LoadMsaData(dataset, k[2]).df

\* C10 witness: a rendered run served from the cache whose predecessor, on
\* the same MSA, kept fewer rows: the rows an earlier filter removed are
\* back, and the frame the run normalized in place differs from the
\* memoized one.
C10_Witness ==
    /\ status = "rendered"
    /\ probe = [kind |-> "previous", msa |-> msa, kept |-> 0]
    /\ Len(filtered_df) >= 2
    /\ \E k \in DOMAIN cache.load : k[2] = msa /\ cache.load[k] # df

====
